---------------------------- MODULE Spec2Model ----------------------------
(***************************************************************************)
(* A model of server.py, the Flask server of Image-Text-Editor-Pro:        *)
(* font resolution (get_font), colour parsing (hex_to_rgb), OCR engine     *)
(* discovery (setup_tesseract) and the two request handlers extract_text   *)
(* and update_image, acting on the upload directory.                       *)
(*                                                                         *)
(* Python values are modelled as follows.  A str that the code indexes or  *)
(* strips is a tuple of one-character strings; a str that is only compared *)
(* is a TLA+ string.  A JSON value is a record with a tag t ("int", "str",  *)
(* "bool", "absent" for a key that is not in the object).  A call that can *)
(* raise returns a record with a field raised.                             *)
(***************************************************************************)
EXTENDS Integers, Sequences, FiniteSets, TLC

VARIABLES
    fontFiles,            \* font path -> "absent" | "corrupt" | "ok" (the filesystem get_font probes)
    fontCall,             \* arguments of the get_font call under study
    fontResult,           \* what that call produced
    installed,            \* the tesseract executables that exist right now
    envPath,              \* os.environ.get('TESSERACT_PATH')
    tesseract_cmd,        \* pytesseract.pytesseract.tesseract_cmd
    tesseract_available,  \* the module global set once at import
    fs,                   \* the upload directory: file name -> content
    lastOp,               \* the handler that ran last
    lastReq,              \* its request
    response,             \* its HTTP response
    lastOcr,              \* what the OCR engine returned to the last extract_text
    text_blocks,          \* text_blocks of the last extract_text response
    full_text,            \* full_text of the last extract_text response
    overlays,             \* the overlay after each iteration of update_image's loop
    blockOk,              \* whether each iteration ended without an exception
    pending               \* the request a one-request study is about to deliver

vars == << fontFiles, fontCall, fontResult, installed, envPath, tesseract_cmd,
           tesseract_available, fs, lastOp, lastReq, response, lastOcr,
           text_blocks, full_text, overlays, blockOk, pending >>

fontVars == << fontFiles, fontCall, fontResult >>
ocrVars == << installed, envPath, tesseract_cmd, tesseract_available >>
serverVars == << fs, lastOp, lastReq, response, lastOcr, text_blocks, full_text,
                overlays, blockOk >>

(***************************************************************************)
(* Python helpers                                                          *)
(***************************************************************************)

\* dict.get(key, default)
DictGet(d, key, default) == IF key \in DOMAIN d THEN d[key] ELSE default

RECURSIVE SeqToSet(_)
SeqToSet(s) == IF s = << >> THEN {} ELSE {Head(s)} \cup SeqToSet(Tail(s))

(***************************************************************************)
(* get_font                                                                *)
(***************************************************************************)

None == "None"

LiberationSansRegular == "/usr/share/fonts/truetype/liberation/LiberationSans-Regular.ttf"
LiberationSansBold == "/usr/share/fonts/truetype/liberation/LiberationSans-Bold.ttf"
LiberationSansItalic == "/usr/share/fonts/truetype/liberation/LiberationSans-Italic.ttf"
LiberationSerifRegular == "/usr/share/fonts/truetype/liberation/LiberationSerif-Regular.ttf"
LiberationSerifBold == "/usr/share/fonts/truetype/liberation/LiberationSerif-Bold.ttf"
LiberationMonoRegular == "/usr/share/fonts/truetype/liberation/LiberationMono-Regular.ttf"
LiberationMonoBold == "/usr/share/fonts/truetype/liberation/LiberationMono-Bold.ttf"

linux_fonts(bold, italic) ==
    [family \in {"Arial", "Times New Roman", "Courier New"} |->
        CASE family = "Arial" ->
                << LiberationSansRegular,
                   IF bold THEN LiberationSansBold ELSE None,
                   IF italic THEN LiberationSansItalic ELSE None >>
          [] family = "Times New Roman" ->
                << LiberationSerifRegular,
                   IF bold THEN LiberationSerifBold ELSE None >>
          [] family = "Courier New" ->
                << LiberationMonoRegular,
                   IF bold THEN LiberationMonoBold ELSE None >>]

windows_fonts(bold, italic) ==
    [family \in {"Arial", "Times New Roman", "Courier New",
                 "Comic Sans MS", "Verdana", "Georgia"} |->
        CASE family = "Arial" ->
                << "C:/Windows/Fonts/arial.ttf",
                   IF bold THEN "C:/Windows/Fonts/arialbd.ttf" ELSE None,
                   IF italic THEN "C:/Windows/Fonts/ariali.ttf" ELSE None >>
          [] family = "Times New Roman" ->
                << "C:/Windows/Fonts/times.ttf",
                   IF bold THEN "C:/Windows/Fonts/timesbd.ttf" ELSE None,
                   IF italic THEN "C:/Windows/Fonts/timesi.ttf" ELSE None >>
          [] family = "Courier New" ->
                << "C:/Windows/Fonts/cour.ttf",
                   IF bold THEN "C:/Windows/Fonts/courbd.ttf" ELSE None >>
          [] family = "Comic Sans MS" -> << "C:/Windows/Fonts/comic.ttf" >>
          [] family = "Verdana" -> << "C:/Windows/Fonts/verdana.ttf" >>
          [] family = "Georgia" -> << "C:/Windows/Fonts/georgia.ttf" >>]

\* Every font file either table can name.
FontPaths ==
    UNION {SeqToSet(linux_fonts(TRUE, TRUE)[f]) : f \in DOMAIN linux_fonts(TRUE, TRUE)}
    \cup UNION {SeqToSet(windows_fonts(TRUE, TRUE)[f]) : f \in DOMAIN windows_fonts(TRUE, TRUE)}

\* The bold and the italic files of the tables.
BoldPaths ==
    (UNION {SeqToSet(linux_fonts(TRUE, FALSE)[f]) : f \in DOMAIN linux_fonts(TRUE, FALSE)}
     \cup UNION {SeqToSet(windows_fonts(TRUE, FALSE)[f]) : f \in DOMAIN windows_fonts(TRUE, FALSE)})
    \ (UNION {SeqToSet(linux_fonts(FALSE, FALSE)[f]) : f \in DOMAIN linux_fonts(FALSE, FALSE)}
       \cup UNION {SeqToSet(windows_fonts(FALSE, FALSE)[f]) : f \in DOMAIN windows_fonts(FALSE, FALSE)})

ItalicPaths ==
    (UNION {SeqToSet(linux_fonts(FALSE, TRUE)[f]) : f \in DOMAIN linux_fonts(FALSE, TRUE)}
     \cup UNION {SeqToSet(windows_fonts(FALSE, TRUE)[f]) : f \in DOMAIN windows_fonts(FALSE, TRUE)})
    \ (UNION {SeqToSet(linux_fonts(FALSE, FALSE)[f]) : f \in DOMAIN linux_fonts(FALSE, FALSE)}
       \cup UNION {SeqToSet(windows_fonts(FALSE, FALSE)[f]) : f \in DOMAIN windows_fonts(FALSE, FALSE)})

\* ImageFont.load_default()
DefaultFont == [path |-> "load_default", size |-> 0]

\* os.path.exists(path) on a font path
FontExists(path, files) == files[path] # "absent"

\* ImageFont.truetype(path, font_size): raises on a file that is no font
truetype(path, font_size, files) ==
    IF files[path] = "ok"
    THEN [raised |-> FALSE, font |-> [path |-> path, size |-> font_size]]
    ELSE [raised |-> TRUE, font |-> DefaultFont]

\* A mutant of try_truetype: the exception of truetype is not caught.
try_truetype_uncaught(path, font_size, files) ==
    LET r == truetype(path, font_size, files)
    IN [returned |-> ~r.raised, raised |-> r.raised, font |-> r.font]

\* try: return ImageFont.truetype(path, font_size) / except: continue
try_truetype(path, font_size, files) ==
    LET r == truetype(path, font_size, files)
    IN [returned |-> ~r.raised, raised |-> FALSE, font |-> r.font]

\* for path in font_paths: if path and os.path.exists(path): try ... except: continue
RECURSIVE try_font_paths(_, _, _)
try_font_paths(font_paths, font_size, files) ==
    IF font_paths = << >>
    THEN [returned |-> FALSE, raised |-> FALSE, font |-> DefaultFont]
    ELSE LET path == Head(font_paths)
         IN IF path # None /\ FontExists(path, files)
            THEN LET r == try_truetype(path, font_size, files)
                 IN IF r.returned \/ r.raised
                    THEN r
                    ELSE try_font_paths(Tail(font_paths), font_size, files)
            ELSE try_font_paths(Tail(font_paths), font_size, files)

\* get_font(font_family, font_size, bold, italic): [raised, font]
get_font(font_family, font_size, bold, italic, files) ==
    LET lin == linux_fonts(bold, italic)
        win == windows_fonts(bold, italic)
        r1 == try_font_paths(DictGet(lin, font_family, DictGet(lin, "Arial", << >>)),
                             font_size, files)
        r2 == try_font_paths(DictGet(win, font_family, DictGet(win, "Arial", << >>)),
                             font_size, files)
    IN IF r1.returned \/ r1.raised THEN [raised |-> r1.raised, font |-> r1.font]
       ELSE IF r2.returned \/ r2.raised THEN [raised |-> r2.raised, font |-> r2.font]
       ELSE [raised |-> FALSE, font |-> DefaultFont]

\* The family strings a caller asks for: the six of the tables (three of them in
\* the Windows table only) and one that no table knows.
Families == {"Arial", "Times New Roman", "Courier New",
             "Comic Sans MS", "Verdana", "Georgia", "Helvetica"}

FontSizes == {12, 20}

FontFileStates == {"absent", "corrupt", "ok"}

\* The files get_font can probe for a family, whatever the flags.
CandidatePaths(font_family) ==
    (SeqToSet(DictGet(linux_fonts(TRUE, TRUE), font_family, linux_fonts(TRUE, TRUE)["Arial"]))
     \cup SeqToSet(DictGet(windows_fonts(TRUE, TRUE), font_family, windows_fonts(TRUE, TRUE)["Arial"])))

NoFonts == [p \in FontPaths |-> "absent"]

\* The liberation fonts of the Docker image, all loadable.
DockerFonts ==
    [p \in FontPaths |->
        IF p \in {LiberationSansRegular, LiberationSansBold, LiberationSansItalic,
                  LiberationSerifRegular, LiberationSerifBold,
                  LiberationMonoRegular, LiberationMonoBold}
        THEN "ok" ELSE "absent"]

NoCall == [family |-> "Arial", size |-> 20, bold |-> FALSE, italic |-> FALSE]
NoResult == [called |-> FALSE, raised |-> FALSE, font |-> DefaultFont]


(***************************************************************************)
(* JSON values and Python conversions                                      *)
(***************************************************************************)

Absent == [t |-> "absent"]
JInt(n) == [t |-> "int", n |-> n]
JStr(s) == [t |-> "str", s |-> s]
JBool(b) == [t |-> "bool", b |-> b]

\* block.get(key, default)
BlockGet(block, key, default) == IF block[key].t = "absent" THEN default ELSE block[key]

\* The truth value Python gives a JSON value (if v / if not v).
Truthy(v) ==
    CASE v.t = "bool" -> v.b
      [] v.t = "int" -> v.n # 0
      [] v.t = "str" -> v.s # << >>
      [] OTHER -> FALSE

\* The value of a digit character in int(s, base).
DigitChars == {"0", "1", "2", "3", "4", "5", "6", "7", "8", "9",
               "a", "b", "c", "d", "e", "f", "A", "B", "C", "D", "E", "F"}

DigitVal(c) ==
    CASE c = "0" -> 0 [] c = "1" -> 1 [] c = "2" -> 2 [] c = "3" -> 3 [] c = "4" -> 4
      [] c = "5" -> 5 [] c = "6" -> 6 [] c = "7" -> 7 [] c = "8" -> 8 [] c = "9" -> 9
      [] c \in {"a", "A"} -> 10 [] c \in {"b", "B"} -> 11 [] c \in {"c", "C"} -> 12
      [] c \in {"d", "D"} -> 13 [] c \in {"e", "E"} -> 14 [] c \in {"f", "F"} -> 15

RECURSIVE DigitsValue(_, _)
DigitsValue(s, base) ==
    IF s = << >> THEN 0
    ELSE DigitsValue(SubSeq(s, 1, Len(s) - 1), base) * base + DigitVal(s[Len(s)])

\* int(s, base) of a str of plain characters: ValueError on the empty str and on
\* any character that is no digit of the base.
int_str(s, base) ==
    IF s # << >> /\ \A i \in 1..Len(s) : s[i] \in DigitChars /\ DigitVal(s[i]) < base
    THEN [raised |-> FALSE, n |-> DigitsValue(s, base)]
    ELSE [raised |-> TRUE, n |-> 0]

\* int(block[key]): KeyError on a missing key, ValueError on a non-numeric str.
int_of(v) ==
    CASE v.t = "int" -> [raised |-> FALSE, n |-> v.n]
      [] v.t = "bool" -> [raised |-> FALSE, n |-> IF v.b THEN 1 ELSE 0]
      [] v.t = "str" -> int_str(v.s, 10)
      [] OTHER -> [raised |-> TRUE, n |-> 0]

\* s[i:j], a Python slice with 0 <= i <= j
Slice(s, i, j) == SubSeq(s, i + 1, IF j < Len(s) THEN j ELSE Len(s))

\* s.lstrip('#')
RECURSIVE lstrip_hash(_)
lstrip_hash(s) == IF s # << >> /\ Head(s) = "#" THEN lstrip_hash(Tail(s)) ELSE s

\* hex_to_rgb(hex_color): [raised, rgb]
hex_to_rgb(hex_color) ==
    LET h == lstrip_hash(hex_color)
        r == int_str(Slice(h, 0, 2), 16)
        g == int_str(Slice(h, 2, 4), 16)
        b == int_str(Slice(h, 4, 6), 16)
    IN IF r.raised \/ g.raised \/ b.raised
       THEN [raised |-> TRUE, rgb |-> << 0, 0, 0 >>]
       ELSE [raised |-> FALSE, rgb |-> << r.n, g.n, b.n >>]

\* hex_to_rgb on a JSON value: a value that is no str has no lstrip (AttributeError).
hex_to_rgb_of(v) ==
    IF v.t = "str" THEN hex_to_rgb(v.s) ELSE [raised |-> TRUE, rgb |-> << 0, 0, 0 >>]

(***************************************************************************)
(* The overlay and the drawing calls of update_image                       *)
(***************************************************************************)

\* The size of every image of the model, in pixels.
ImgW == 6
ImgH == 4

Pixels == (0..(ImgW - 1)) \X (0..(ImgH - 1))

\* Image.new('RGBA', image.size, (255, 255, 255, 0))
NewOverlay == [p \in Pixels |-> << 255, 255, 255, 0 >>]

\* The pixels of the image inside [x0, y0, x1, y1], both corners included as
\* ImageDraw.rectangle does; what lies outside the image is clipped.
RectPixels(x0, y0, x1, y1) ==
    {p \in Pixels : x0 <= p[1] /\ p[1] <= x1 /\ y0 <= p[2] /\ p[2] <= y1}

\* A drawing call on an RGBA image replaces the pixels it covers.
Paint(overlay, region, rgba) ==
    [p \in Pixels |-> IF p \in region THEN rgba ELSE overlay[p]]

\* A mutant of CoverFill: an opaque white cover.
CoverFillOpaque == << 255, 255, 255, 255 >>

\* fill=(255, 255, 255, 200)
CoverFill == << 255, 255, 255, 200 >>

\* rgb + (255,)
Opaque(rgb) == << rgb[1], rgb[2], rgb[3], 255 >>

\* [x-2, y-2, x+w+2, y+h+2]
BlockRect(x, y, w, h) == RectPixels(x - 2, y - 2, x + w + 2, y + h + 2)

\* The characters the built-in bitmap font can encode (latin-1); "U+8A9E" stands
\* for a character outside it.
Latin1(text) == \A i \in 1..Len(text) : text[i] # "U+8A9E"

\* draw.text((x, y), text, ...) raises with the built-in bitmap font on a text it
\* cannot encode; a TrueType font draws any text.
DrawTextRaises(text, font) == font = DefaultFont /\ ~Latin1(text)

\* The pixels draw.text inks: glyphs are abstracted to one pixel per character,
\* on the row of the anchor.
TextPixels(x, y, text) == RectPixels(x, y, x + Len(text) - 1, y)

\* draw.textbbox((x, y), text, font=font): [raised, bbox]; the built-in bitmap
\* font supports no textbbox.
textbbox(x, y, text, font) ==
    IF font = DefaultFont
    THEN [raised |-> TRUE, bbox |-> << 0, 0, 0, 0 >>]
    ELSE [raised |-> FALSE, bbox |-> << x, y, x + Len(text), y + 1 >>]

\* draw.line([(x, underline_y), (text_bbox[2], underline_y)], width=2)
UnderlinePixels(x, y, text, font) ==
    LET tb == textbbox(x, y, text, font)
        underline_y == tb.bbox[4] + 1
    IN IF tb.raised THEN {}
       ELSE RectPixels(x, underline_y - 1, tb.bbox[3], underline_y)

\* One iteration of the loop over text_blocks: [overlay, ok].  ok is FALSE when
\* the iteration ended in the except clause; the overlay is then what had been
\* drawn when the exception was raised.
process_block(overlay, block, files) ==
    LET x == int_of(block.x)
        y == int_of(block.y)
        w == int_of(block.width)
        h == int_of(block.height)
        font_size == int_of(BlockGet(block, "fontSize", JInt(20)))
        font_family == BlockGet(block, "fontFamily", [t |-> "atom", a |-> "Arial"])
        bold == Truthy(BlockGet(block, "bold", JBool(FALSE)))
        italic == Truthy(BlockGet(block, "italic", JBool(FALSE)))
        underline == Truthy(BlockGet(block, "underline", JBool(FALSE)))
        text_color == BlockGet(block, "textColor", JStr(<< "#", "0", "0", "0", "0", "0", "0" >>))
        bg_color == BlockGet(block, "backgroundColor", JStr(<< "#", "F", "F", "F", "F", "F", "F" >>))
        bg_transparent == Truthy(BlockGet(block, "backgroundTransparent", JBool(TRUE)))
        font == get_font(font_family.a, font_size.n, bold, italic, files)
        bg_rgb == hex_to_rgb_of(bg_color)
        text_rgb == hex_to_rgb_of(text_color)
        covered == Paint(overlay, BlockRect(x.n, y.n, w.n, h.n),
                         IF bg_transparent THEN CoverFill ELSE Opaque(bg_rgb.rgb))
        written == Paint(covered, TextPixels(x.n, y.n, block.text.s), Opaque(text_rgb.rgb))
        underlined == Paint(written, UnderlinePixels(x.n, y.n, block.text.s, font.font),
                            Opaque(text_rgb.rgb))
    IN IF x.raised \/ y.raised \/ w.raised \/ h.raised \/ block.text.t = "absent"
          \/ font_size.raised \/ font.raised
       THEN [overlay |-> overlay, ok |-> FALSE]
       ELSE IF ~bg_transparent /\ bg_rgb.raised
       THEN [overlay |-> overlay, ok |-> FALSE]
       ELSE IF text_rgb.raised \/ DrawTextRaises(block.text.s, font.font)
       THEN [overlay |-> covered, ok |-> FALSE]
       ELSE IF underline
       THEN [overlay |-> underlined, ok |-> TRUE]
       ELSE [overlay |-> written, ok |-> TRUE]

\* for idx, block in enumerate(text_blocks): the overlay after each iteration
\* and whether the iteration ended without an exception.
RECURSIVE render_blocks(_, _, _, _)
render_blocks(ovs, oks, blocks, files) ==
    IF blocks = << >>
    THEN [overlays |-> ovs, ok |-> oks]
    ELSE LET r == process_block(ovs[Len(ovs)], Head(blocks), files)
         IN render_blocks(Append(ovs, r.overlay), Append(oks, r.ok), Tail(blocks), files)


(***************************************************************************)
(* setup_tesseract                                                         *)
(***************************************************************************)

\* Where the TESSERACT_PATH of the model points: a place no other method finds.
EnvTarget == "/opt/tesseract/bin/tesseract"

linux_paths == << "/usr/bin/tesseract", "/usr/local/bin/tesseract",
                  "/app/.apt/usr/bin/tesseract" >>

windows_paths == << "C:\\Program Files\\Tesseract-OCR\\tesseract.exe",
                    "C:\\Program Files (x86)\\Tesseract-OCR\\tesseract.exe" >>

\* The executables the process PATH reaches, in PATH order.
OnPath == << "/usr/local/bin/tesseract", "/usr/bin/tesseract" >>

Locations == {EnvTarget} \cup SeqToSet(linux_paths) \cup SeqToSet(windows_paths)

\* The first path of a list that exists, or None.
RECURSIVE FirstExisting(_, _)
FirstExisting(paths, exist) ==
    IF paths = << >> THEN None
    ELSE IF Head(paths) \in exist THEN Head(paths)
    ELSE FirstExisting(Tail(paths), exist)

\* shutil.which('tesseract')
which_tesseract(exist) == FirstExisting(OnPath, exist)

\* setup_tesseract(): [cmd, available]; cmd is what tesseract_cmd holds after
\* the call ('tesseract', the library's default, when nothing was found).
setup_tesseract(env_path, exist) ==
    IF env_path # None /\ env_path \in exist
    THEN [cmd |-> env_path, available |-> TRUE]
    ELSE IF which_tesseract(exist) # None
    THEN [cmd |-> which_tesseract(exist), available |-> TRUE]
    ELSE IF FirstExisting(linux_paths, exist) # None
    THEN [cmd |-> FirstExisting(linux_paths, exist), available |-> TRUE]
    ELSE IF FirstExisting(windows_paths, exist) # None
    THEN [cmd |-> FirstExisting(windows_paths, exist), available |-> TRUE]
    ELSE [cmd |-> "tesseract", available |-> FALSE]

\* Whether pytesseract can run the engine now: tesseract_cmd names an executable
\* that exists (the bare name 'tesseract' is looked up on the PATH).
EngineRuns(cmd, exist) ==
    IF cmd = "tesseract" THEN which_tesseract(exist) # None ELSE cmd \in exist

(***************************************************************************)
(* The upload directory                                                    *)
(***************************************************************************)

UPLOAD_FOLDER == "uploads"

\* A path is [dir, name].  secure_filename(f) of werkzeug, on the file names of
\* the model: the directory part (every path separator and "..") is dropped.
secure_filename(f) == f.name

\* os.path.basename(path)
basename(path) == [dir |-> "", name |-> path.name]

\* A mutant of PathExists: the existence check is missing.
PathExistsAlways(path, files) == TRUE

\* os.path.exists(path): the upload directory itself, or a file in it.  Nothing
\* else on the disk is modelled.
PathExists(path, files) ==
    path.dir = UPLOAD_FOLDER /\ (path.name = "" \/ path.name \in DOMAIN files)

\* An uploaded file as stored, and an image as update_image saves it: the
\* decoded source with the overlays composited onto it so far.
Upload(data) == [kind |-> "upload", data |-> data, layers |-> << >>]

\* Image.alpha_composite(image, overlay), flattened and saved.
Edited(content, overlay) ==
    [kind |-> "edited", data |-> content.data, layers |-> Append(content.layers, overlay)]

\* Image.open(path) raises on a missing file, on a directory and on bytes that
\* are no image.
ImageOpenRaises(path, files) ==
    \/ path.dir # UPLOAD_FOLDER
    \/ path.name \notin DOMAIN files
    \/ files[path.name].data = "junk"

\* file.save(path) and image.save(path): the file is created or overwritten.
WriteFile(files, name, content) ==
    [n \in DOMAIN files \cup {name} |-> IF n = name THEN content ELSE files[n]]

Respond(status, error, filename) ==
    [status |-> status, error |-> error, filename |-> filename]

ConfigError == "Tesseract OCR is not configured properly"

(***************************************************************************)
(* extract_text                                                            *)
(***************************************************************************)

Whitespace == {" ", "\t"}

RECURSIVE lstrip(_)
lstrip(s) == IF s # << >> /\ Head(s) \in Whitespace THEN lstrip(Tail(s)) ELSE s

RECURSIVE rstrip(_)
rstrip(s) ==
    IF s # << >> /\ s[Len(s)] \in Whitespace THEN rstrip(SubSeq(s, 1, Len(s) - 1)) ELSE s

\* str.strip()
strip(s) == rstrip(lstrip(s))

\* A mutant of KeepToken: every token with a non-empty text is kept.
KeepTokenUnstripped(text) == text # << >>

\* if text and str(text).strip()
KeepToken(text) == text # << >> /\ strip(text) # << >>

\* The block built for one OCR token.
BlockOfToken(tok) ==
    [text |-> strip(tok.text), x |-> tok.left, y |-> tok.top,
     width |-> tok.width, height |-> tok.height, confidence |-> tok.conf,
     fontSize |-> 20, fontFamily |-> "Arial", bold |-> FALSE, italic |-> FALSE,
     underline |-> FALSE, textColor |-> "#000000", backgroundColor |-> "#FFFFFF",
     backgroundTransparent |-> TRUE]

\* for i in range(len(data['level'])): ... text_blocks.append(block)
RECURSIVE BlocksOfTokens(_)
BlocksOfTokens(toks) ==
    IF toks = << >> THEN << >>
    ELSE IF KeepToken(Head(toks).text)
    THEN << BlockOfToken(Head(toks)) >> \o BlocksOfTokens(Tail(toks))
    ELSE BlocksOfTokens(Tail(toks))

\* ' '.join([b['text'] for b in text_blocks])
RECURSIVE JoinTexts(_)
JoinTexts(blocks) ==
    IF blocks = << >> THEN << >>
    ELSE IF Len(blocks) = 1 THEN blocks[1].text
    ELSE blocks[1].text \o << " " >> \o JoinTexts(Tail(blocks))

\* POST /extract_text.  req is the multipart request: whether it has a part
\* named image, the part's file name [dir, name] and its bytes.  ocr is what the
\* engine returns for these bytes when it runs.
extract_text(req, ocr) ==
    LET filename == secure_filename(req.filename)
        saved == WriteFile(fs, filename, Upload(req.data))
    IN /\ lastOp' = "extract_text"
       /\ lastReq' = req
       /\ overlays' = << >>
       /\ blockOk' = << >>
       /\ UNCHANGED << fontVars, ocrVars >>
       /\ IF ~tesseract_available
          THEN /\ response' = Respond(500, ConfigError, "")
               /\ UNCHANGED fs
               /\ lastOcr' = << >>
               /\ text_blocks' = << >>
               /\ full_text' = << >>
          ELSE IF ~req.hasImage
          THEN /\ response' = Respond(400, "No image uploaded", "")
               /\ UNCHANGED fs
               /\ lastOcr' = << >>
               /\ text_blocks' = << >>
               /\ full_text' = << >>
          ELSE IF req.filename.dir = "" /\ req.filename.name = ""
          THEN /\ response' = Respond(400, "No file selected", "")
               /\ UNCHANGED fs
               /\ lastOcr' = << >>
               /\ text_blocks' = << >>
               /\ full_text' = << >>
          ELSE IF filename = ""
          THEN /\ response' = Respond(500, "exception", "")
               /\ UNCHANGED fs
               /\ lastOcr' = << >>
               /\ text_blocks' = << >>
               /\ full_text' = << >>
          ELSE IF req.data = "junk" \/ ~EngineRuns(tesseract_cmd, installed)
          THEN /\ response' = Respond(500, "exception", "")
               /\ fs' = saved
               /\ lastOcr' = << >>
               /\ text_blocks' = << >>
               /\ full_text' = << >>
          ELSE /\ response' = Respond(200, "", filename)
               /\ fs' = saved
               /\ lastOcr' = ocr
               /\ text_blocks' = BlocksOfTokens(ocr)
               /\ full_text' = JoinTexts(BlocksOfTokens(ocr))

(***************************************************************************)
(* update_image                                                            *)
(***************************************************************************)

\* POST /update_image.  body is request.json: kind says what the body is
\* ("object", or "none", "invalid", "null", "list", "string"); an object carries
\* image_path ([t |-> "absent"] or [t |-> "path", dir, name]) and text_blocks
\* ([t |-> "absent"] or [t |-> "list", items]).
update_image(body) ==
    LET image_path == body.image_path
        blocks == body.text_blocks
        r == render_blocks(<< NewOverlay >>, << >>, blocks.items, fontFiles)
        output_filename == "edited_" \o secure_filename(basename(image_path))
    IN /\ lastOp' = "update_image"
       /\ lastReq' = body
       /\ lastOcr' = << >>
       /\ text_blocks' = << >>
       /\ full_text' = << >>
       /\ UNCHANGED << fontVars, ocrVars >>
       /\ IF body.kind # "object"
          THEN /\ response' = Respond(500, "exception", "")
               /\ UNCHANGED fs
               /\ overlays' = << >>
               /\ blockOk' = << >>
          ELSE IF image_path.t = "absent" \/ (image_path.dir = "" /\ image_path.name = "")
                  \/ blocks.t = "absent" \/ blocks.items = << >>
          THEN /\ response' = Respond(400, "Missing required data", "")
               /\ UNCHANGED fs
               /\ overlays' = << >>
               /\ blockOk' = << >>
          ELSE IF ~PathExists(image_path, fs)
          THEN /\ response' = Respond(404, "Original image not found", "")
               /\ UNCHANGED fs
               /\ overlays' = << >>
               /\ blockOk' = << >>
          ELSE IF ImageOpenRaises(image_path, fs)
          THEN /\ response' = Respond(500, "exception", "")
               /\ UNCHANGED fs
               /\ overlays' = << >>
               /\ blockOk' = << >>
          ELSE /\ response' = Respond(200, "", output_filename)
               /\ fs' = WriteFile(fs, output_filename,
                                  Edited(fs[image_path.name], r.overlays[Len(r.overlays)]))
               /\ overlays' = r.overlays
               /\ blockOk' = r.ok


(***************************************************************************)
(* The environment and the call of get_font under study                    *)
(***************************************************************************)

\* An engine executable appears on the disk.
InstallEngine(loc) ==
    /\ loc \notin installed
    /\ installed' = installed \cup {loc}
    /\ UNCHANGED << fontVars, envPath, tesseract_cmd, tesseract_available, serverVars,
                    pending >>

\* An engine executable disappears from the disk.
RemoveEngine(loc) ==
    /\ loc \in installed
    /\ installed' = installed \ {loc}
    /\ UNCHANGED << fontVars, envPath, tesseract_cmd, tesseract_available, serverVars,
                    pending >>

\* A call get_font(font_family, font_size, bold, italic).
get_font_call ==
    /\ ~fontResult.called
    /\ fontResult' = [called |-> TRUE,
                      raised |-> get_font(fontCall.family, fontCall.size, fontCall.bold,
                                          fontCall.italic, fontFiles).raised,
                      font |-> get_font(fontCall.family, fontCall.size, fontCall.bold,
                                        fontCall.italic, fontFiles).font]
    /\ UNCHANGED << fontFiles, fontCall, ocrVars, serverVars, pending >>

(***************************************************************************)
(* Requests                                                                *)
(***************************************************************************)

\* Bounds of the model.
MaxBlocks == 2
MaxTokens == 2

SeqsUpTo(S, n) == UNION {[1..k -> S] : k \in 0..n}

Green == << "#", "0", "0", "F", "F", "0", "0" >>
Red == << "#", "F", "F", "0", "0", "0", "0" >>
NotHex == << "#", "G", "G", "0", "0", "0", "0" >>
ColourName == << "r", "e", "d" >>

\* A text block of a request: every key of the record is a JSON value.
Block(x, width, text, underline, textColor, backgroundColor, backgroundTransparent) ==
    [x |-> x, y |-> JInt(0), width |-> width, height |-> JInt(0), text |-> text,
     fontSize |-> Absent, fontFamily |-> Absent, bold |-> Absent, italic |-> Absent,
     underline |-> underline, textColor |-> textColor,
     backgroundColor |-> backgroundColor,
     backgroundTransparent |-> backgroundTransparent]

Hi == JStr(<< "H", "i" >>)

\* Blocks with no defect: two positions whose covers overlap, the three forms
\* of backgroundTransparent, with and without underline.
WellFormedBlocks ==
    {Block(x, JInt(1), Hi, ul, JStr(Red), JStr(Green), bgt) :
        x \in {JInt(1), JStr(<< "3" >>)},
        ul \in {JBool(FALSE), JBool(TRUE)},
        bgt \in {JBool(TRUE), JBool(FALSE), Absent}}

\* Blocks with one irregular field each: a non-numeric coordinate, a missing
\* key, a background colour that is no hex colour (read only when the
\* background is opaque), a text colour that is none, a text the built-in font
\* cannot encode.
DefectiveBlocks ==
    {Block(JStr(<< "a", "b", "c" >>), JInt(1), Hi, JBool(FALSE), JStr(Red), JStr(Green),
           JBool(TRUE)),
     Block(JInt(1), Absent, Hi, JBool(FALSE), JStr(Red), JStr(Green), JBool(TRUE))}
    \cup UNION {
        {Block(x, JInt(1), Hi, JBool(FALSE), JStr(Red), JStr(NotHex), bgt),
         Block(x, JInt(1), Hi, JBool(FALSE), JStr(ColourName), JStr(Green), bgt),
         Block(x, JInt(1), JStr(<< "U+8A9E" >>), JBool(FALSE), JStr(Red), JStr(Green),
               JBool(TRUE))} :
        x \in {JInt(1), JInt(3)}, bgt \in {JBool(TRUE), JBool(FALSE)}}

RenderBlocks == WellFormedBlocks \cup DefectiveBlocks

NoPath == [t |-> "absent"]
PathOf(dir, name) == [t |-> "path", dir |-> dir, name |-> name]
NoList == [t |-> "absent"]
ListOf(items) == [t |-> "list", items |-> items]

ObjectBody(image_path, blocks) ==
    [kind |-> "object", image_path |-> image_path, text_blocks |-> blocks]

\* A body that is no JSON object: none at all, text that is no JSON, null, a
\* list, a string.
OtherBody(kind) == [kind |-> kind, image_path |-> NoPath, text_blocks |-> NoList]

\* The bodies of the render study: edits of one stored image.
RenderBodies ==
    {ObjectBody(PathOf(UPLOAD_FOLDER, "a.png"), ListOf(bs)) :
        bs \in SeqsUpTo(RenderBlocks, MaxBlocks)}

OneBlock == Block(JInt(1), JInt(1), Hi, JBool(FALSE), JStr(Red), JStr(Green), JBool(TRUE))

\* The bodies of the server study.
ServerBodies ==
    {OtherBody(k) : k \in {"none", "invalid", "null", "list", "string"}}
    \cup {ObjectBody(ip, tb) :
            ip \in {NoPath, PathOf("", ""), PathOf(UPLOAD_FOLDER, ""),
                    PathOf(UPLOAD_FOLDER, "a.png"), PathOf(UPLOAD_FOLDER, "edited_a.png"),
                    PathOf(UPLOAD_FOLDER, "missing.png"), PathOf("/tmp", "a.png")},
            tb \in {NoList, ListOf(<< >>), ListOf(<< OneBlock >>)}}

UploadOf(hasImage, dir, name, data) ==
    [hasImage |-> hasImage, filename |-> [dir |-> dir, name |-> name], data |-> data]

\* The uploads of the server study.
ServerUploads ==
    {UploadOf(FALSE, "", "", "imgA")}
    \cup {UploadOf(TRUE, d, n, "imgA") : d \in {"", ".."}, n \in {"", "a.png"}}
    \cup {UploadOf(TRUE, "", n, data) :
            n \in {"a.png", "edited_a.png"}, data \in {"imgA", "imgB", "junk"}}

Token(text, left, top, width, height, conf) ==
    [text |-> text, left |-> left, top |-> top, width |-> width, height |-> height,
     conf |-> conf]

\* The tokens of an OCR result: texts with and without surrounding whitespace,
\* empty and blank texts (the engine's page, block and line rows).
OcrTokens ==
    {Token(t, g[1], g[2], g[3], g[4], IF t = << >> THEN -1 ELSE 95) :
        t \in {<< >>, << " " >>, << "a" >>, << " ", "a" >>, << "a", " " >>,
               << "a", " ", "b" >>, << "\t", "b", " " >>},
        g \in {<< 0, 0, 0, 0 >>, << 1, 2, 3, 4 >>}}

OcrResults == SeqsUpTo(OcrTokens, MaxTokens)

HelloResult == << Token(<< >>, 0, 0, 6, 4, -1), Token(<< "H", "i" >>, 1, 0, 2, 1, 95) >>

(***************************************************************************)
(* Specifications                                                          *)
(***************************************************************************)

NoRequest == [kind |-> "none"]
NoResponse == Respond(0, "", "")

InitFont ==
    /\ fontFiles = DockerFonts
    /\ fontCall = NoCall
    /\ fontResult = NoResult

InitEngine ==
    /\ installed = {"/usr/bin/tesseract"}
    /\ envPath = None
    /\ tesseract_cmd = setup_tesseract(None, {"/usr/bin/tesseract"}).cmd
    /\ tesseract_available = setup_tesseract(None, {"/usr/bin/tesseract"}).available

InitServer ==
    /\ fs = << >>
    /\ lastOp = "none"
    /\ lastReq = NoRequest
    /\ response = NoResponse
    /\ lastOcr = << >>
    /\ text_blocks = << >>
    /\ full_text = << >>
    /\ overlays = << >>
    /\ blockOk = << >>

NoPending == pending = NoRequest

\* The server after import, with an empty upload directory.
Init == InitFont /\ InitEngine /\ InitServer /\ NoPending

Next ==
    \/ \E req \in ServerUploads : extract_text(req, HelloResult) /\ UNCHANGED pending
    \/ \E body \in ServerBodies : update_image(body) /\ UNCHANGED pending

Spec == Init /\ [][Next]_vars

\* The render study: one image is stored, the fonts are those of the Docker
\* image or none at all, and one request edits the image.
InitRender ==
    /\ fontFiles \in {NoFonts, DockerFonts}
    /\ fontCall = NoCall
    /\ fontResult = NoResult
    /\ InitEngine
    /\ fs = WriteFile(<< >>, "a.png", Upload("imgA"))
    /\ lastOp = "none"
    /\ lastReq = NoRequest
    /\ response = NoResponse
    /\ lastOcr = << >>
    /\ text_blocks = << >>
    /\ full_text = << >>
    /\ overlays = << >>
    /\ blockOk = << >>
    /\ pending \in RenderBodies

NextRender ==
    /\ pending # NoRequest
    /\ update_image(pending)
    /\ pending' = NoRequest

SpecRender == InitRender /\ [][NextRender]_vars

\* The font study: one call of get_font, for every family, size and flags, and
\* every state of the files the call can probe.
InitFontStudy ==
    /\ fontCall \in [family : Families, size : FontSizes, bold : BOOLEAN, italic : BOOLEAN]
    /\ \E st \in [CandidatePaths(fontCall.family) -> FontFileStates] :
          fontFiles = [p \in FontPaths |->
                          IF p \in CandidatePaths(fontCall.family) THEN st[p] ELSE "absent"]
    /\ fontResult = NoResult
    /\ InitEngine
    /\ InitServer
    /\ NoPending

NextFont == get_font_call

SpecFont == InitFontStudy /\ [][NextFont]_vars

\* The engine study: the server is imported in any environment, and the
\* environment changes while it serves uploads.
InitOcr ==
    /\ InitFont
    /\ envPath \in {None, EnvTarget}
    /\ installed \in SUBSET Locations
    /\ tesseract_cmd = setup_tesseract(envPath, installed).cmd
    /\ tesseract_available = setup_tesseract(envPath, installed).available
    /\ InitServer
    /\ NoPending

OcrUploads == {UploadOf(TRUE, "", "a.png", "imgA"), UploadOf(TRUE, "", "a.png", "junk")}

NextOcr ==
    \/ \E loc \in Locations : InstallEngine(loc)
    \/ \E loc \in Locations : RemoveEngine(loc)
    \/ \E req \in OcrUploads : extract_text(req, HelloResult) /\ UNCHANGED pending

SpecOcr == InitOcr /\ [][NextOcr]_vars

\* The extraction study: one upload of an image, for every OCR result.
InitExtract ==
    /\ InitFont
    /\ InitEngine
    /\ InitServer
    /\ pending \in {[kind |-> "upload", req |-> UploadOf(TRUE, "", "a.png", "imgA"),
                      ocr |-> ocr] : ocr \in OcrResults}

NextExtract ==
    /\ pending # NoRequest
    /\ extract_text(pending.req, pending.ocr)
    /\ pending' = NoRequest

SpecExtract == InitExtract /\ [][NextExtract]_vars


(***************************************************************************)
(* Claims about get_font (checked under SpecFont)                          *)
(***************************************************************************)

\* C3: get_font never raises and always returns a font: for every family, size
\* and flags and every state of the candidate files, the call returns either a
\* candidate of the family that exists and loads, at the requested size, or the
\* built-in default font.
C3_GetFontAlwaysReturnsFont ==
    fontResult.called =>
        /\ ~fontResult.raised
        /\ \/ fontResult.font = DefaultFont
           \/ /\ fontResult.font.path \in CandidatePaths(fontCall.family)
              /\ fontFiles[fontResult.font.path] = "ok"
              /\ fontResult.font.size = fontCall.size

\* A call for a family no table knows, with a candidate that exists and fails
\* to load and no candidate that loads: the default font comes back.
C3_Witness ==
    /\ fontResult.called
    /\ fontCall.family = "Helvetica"
    /\ fontFiles[LiberationSansRegular] = "corrupt"
    /\ fontFiles["C:/Windows/Fonts/arial.ttf"] = "corrupt"
    /\ fontResult.font = DefaultFont

\* The candidates a family's own entries list, in either table.
ListedPaths(font_family, bold, italic) ==
    SeqToSet(DictGet(linux_fonts(bold, italic), font_family, << >>))
    \cup SeqToSet(DictGet(windows_fonts(bold, italic), font_family, << >>))

\* C7: get_font selects the bold (respectively italic) variant when it is
\* requested: when the family lists a bold (italic) file, the flag is set and
\* that file exists and loads, the returned font is loaded from a bold (italic)
\* file, also when the regular file loads too.
C7_VariantSelected ==
    fontResult.called =>
        /\ (fontCall.bold
            /\ \E p \in BoldPaths \cap ListedPaths(fontCall.family, TRUE, TRUE) :
                  fontFiles[p] = "ok")
           => fontResult.font.path \in BoldPaths
        /\ (fontCall.italic
            /\ \E p \in ItalicPaths \cap ListedPaths(fontCall.family, TRUE, TRUE) :
                  fontFiles[p] = "ok")
           => fontResult.font.path \in ItalicPaths

(***************************************************************************)
(* Claims about extract_text                                               *)
(***************************************************************************)

NonBlank(text) == \E j \in 1..Len(text) : text[j] \notin Whitespace

\* The indices of the tokens whose text holds a character that is no whitespace.
KeptIndices(ocr) ==
    SelectSeq([i \in 1..Len(ocr) |-> i], LAMBDA i : NonBlank(ocr[i].text))

\* t is s without its leading and trailing whitespace.
IsTrimOf(t, s) ==
    \E i, j \in 1..Len(s) :
        /\ i <= j
        /\ t = SubSeq(s, i, j)
        /\ s[i] \notin Whitespace
        /\ s[j] \notin Whitespace
        /\ \A k \in 1..(i - 1) : s[k] \in Whitespace
        /\ \A k \in (j + 1)..Len(s) : s[k] \in Whitespace

\* Where the text of block k starts in the texts joined by single spaces.
RECURSIVE JoinStart(_, _)
JoinStart(blocks, k) ==
    IF k = 1 THEN 1 ELSE JoinStart(blocks, k - 1) + Len(blocks[k - 1].text) + 1

IsJoinOf(joined, blocks) ==
    /\ Len(joined) = IF blocks = << >> THEN 0
                     ELSE JoinStart(blocks, Len(blocks)) + Len(blocks[Len(blocks)].text) - 1
    /\ \A k \in 1..Len(blocks) :
          /\ SubSeq(joined, JoinStart(blocks, k),
                    JoinStart(blocks, k) + Len(blocks[k].text) - 1) = blocks[k].text
          /\ k < Len(blocks) => joined[JoinStart(blocks, k) + Len(blocks[k].text)] = " "

\* C6: the text_blocks of a successful /extract_text are exactly the OCR tokens
\* whose trimmed text is non-empty, in OCR order, one block per token; each
\* block has the token's trimmed, non-empty text, its box with non-negative
\* width and height, its confidence and the default style; full_text is the
\* block texts joined by single spaces.
C6_BlocksAreNonBlankTokens ==
    (lastOp = "extract_text" /\ response.status = 200) =>
        LET kept == KeptIndices(lastOcr)
        IN /\ Len(text_blocks) = Len(kept)
           /\ \A k \in 1..Len(kept) :
                 LET b == text_blocks[k]
                     tok == lastOcr[kept[k]]
                 IN /\ b.text # << >>
                    /\ IsTrimOf(b.text, tok.text)
                    /\ b.x = tok.left /\ b.y = tok.top
                    /\ b.width = tok.width /\ b.height = tok.height
                    /\ b.width >= 0 /\ b.height >= 0
                    /\ b.confidence = tok.conf
                    /\ b.fontFamily = "Arial" /\ b.fontSize = 20
                    /\ b.textColor = "#000000" /\ b.backgroundColor = "#FFFFFF"
                    /\ b.backgroundTransparent = TRUE
                    /\ b.bold = FALSE /\ b.italic = FALSE /\ b.underline = FALSE
           /\ IsJoinOf(full_text, text_blocks)

\* An OCR result of two padded tokens: both are kept, trimmed, and joined.
C6_Witness ==
    /\ lastOp = "extract_text"
    /\ response.status = 200
    /\ Len(lastOcr) = 2
    /\ lastOcr[1].text = << "\t", "b", " " >>
    /\ lastOcr[2].text = << "a", " " >>
    /\ Len(text_blocks) = 2
    /\ full_text = << "b", " ", "a" >>

\* Whether a discovery made now finds the engine.
EngineFoundNow == setup_tesseract(envPath, installed).available

\* C4: whenever the OCR engine is unavailable at the moment an /extract_text
\* request is handled, the request ends with the configuration-error 500
\* response, nothing is saved to the upload directory and no OCR is attempted.
\* (A step that leaves the installed engines alone and ends with lastOp
\* "extract_text" is a run of the handler.)
C4_UnavailableEngineIsConfigError ==
    [][(lastOp' = "extract_text" /\ installed' = installed /\ ~EngineFoundNow)
         => (/\ response'.status = 500
             /\ response'.error = ConfigError
             /\ fs' = fs
             /\ lastOcr' = << >>)]_vars

(***************************************************************************)
(* Claims about update_image's validation and files (checked under Spec)   *)
(***************************************************************************)

\* C1: an /update_image request whose body carries a non-empty image_path that
\* names a file that does not exist and a non-empty text_blocks list is
\* answered 404, and leaves the upload directory as it was.
C1_MissingImageIs404 ==
    [][(/\ lastOp' = "update_image"
        /\ lastReq'.kind = "object"
        /\ lastReq'.image_path.t = "path"
        /\ lastReq'.image_path.name # ""
        /\ ~(lastReq'.image_path.dir = UPLOAD_FOLDER
             /\ lastReq'.image_path.name \in DOMAIN fs)
        /\ lastReq'.text_blocks.t = "list"
        /\ lastReq'.text_blocks.items # << >>)
         => (response'.status = 404 /\ fs' = fs)]_vars

\* The upload directory holds files, the request names another one, and the
\* answer is 404.
C1_Witness ==
    /\ lastOp = "update_image"
    /\ lastReq.kind = "object"
    /\ lastReq.image_path = PathOf(UPLOAD_FOLDER, "missing.png")
    /\ lastReq.text_blocks = ListOf(<< OneBlock >>)
    /\ "a.png" \in DOMAIN fs
    /\ response.status = 404

\* A body that lacks a required field.
LacksField(body) ==
    \/ body.kind # "object"
    \/ body.image_path.t = "absent"
    \/ (body.image_path.dir = "" /\ body.image_path.name = "")
    \/ body.text_blocks.t = "absent"
    \/ body.text_blocks.items = << >>

\* C5: every /update_image request that lacks a required field (image_path or
\* text_blocks missing or empty, or a body that is absent, no JSON, or no JSON
\* object) is answered 400, never 500, and no file is written.
C5_MissingFieldIs400 ==
    [][(lastOp' = "update_image" /\ LacksField(lastReq'))
         => (response'.status = 400 /\ fs' = fs)]_vars

\* C10: an /update_image request writes only the file 'edited_' + the sanitized
\* base name of its image_path, and never creates, overwrites or changes a file
\* stored by an upload.
C10_UploadsAreKept ==
    [][lastOp' = "update_image"
         => /\ \A n \in DOMAIN fs : fs[n].kind = "upload" => fs'[n] = fs[n]
            /\ \A n \in DOMAIN fs' :
                  (n \notin DOMAIN fs \/ fs'[n] # fs[n])
                      => n = "edited_" \o lastReq'.image_path.name]_vars

(***************************************************************************)
(* Claims about update_image's rendering (checked under SpecRender)        *)
(***************************************************************************)

Rendered == lastOp = "update_image" /\ response.status = 200

\* The box of a block, [x, x+w] by [y, y+h], expanded by 2 pixels per side.
ExpandedBox(b) ==
    {p \in Pixels :
        /\ int_of(b.x).n - 2 <= p[1] /\ p[1] <= int_of(b.x).n + int_of(b.width).n + 2
        /\ int_of(b.y).n - 2 <= p[2] /\ p[2] <= int_of(b.y).n + int_of(b.height).n + 2}

\* The font update_image resolves for a block.
FontOf(b) ==
    get_font(BlockGet(b, "fontFamily", [t |-> "atom", a |-> "Arial"]).a,
             int_of(BlockGet(b, "fontSize", JInt(20))).n,
             Truthy(BlockGet(b, "bold", JBool(FALSE))),
             Truthy(BlockGet(b, "italic", JBool(FALSE))), fontFiles).font

\* The pixels a block's own text and underline ink.
OwnInk(b) ==
    TextPixels(int_of(b.x).n, int_of(b.y).n, b.text.s)
    \cup (IF Truthy(BlockGet(b, "underline", JBool(FALSE)))
          THEN UnderlinePixels(int_of(b.x).n, int_of(b.y).n, b.text.s, FontOf(b))
          ELSE {})

\* The pixels a block can draw on; none when its box cannot be read.
Footprint(b) ==
    IF int_of(b.x).raised \/ int_of(b.y).raised \/ int_of(b.width).raised
       \/ int_of(b.height).raised \/ b.text.t = "absent"
    THEN {}
    ELSE ExpandedBox(b) \cup OwnInk(b)

\* The cover the claims expect of a block: translucent white when
\* backgroundTransparent is true or absent, else the requested colour, opaque.
ExpectedCover(b) ==
    IF b.backgroundTransparent \in {JBool(TRUE), Absent}
    THEN << 255, 255, 255, 200 >>
    ELSE CASE b.backgroundColor = JStr(Green) -> << 0, 255, 0, 255 >>
           [] b.backgroundColor = JStr(Red) -> << 255, 0, 0, 255 >>

\* C8: for every block rendered without error, each overlay pixel of its box
\* expanded by 2 that its own text and underline do not ink holds the expected
\* cover once the block is drawn, and every pixel keeps what a block drew there
\* unless a later block draws over it.
C8_CoverOfRenderedBlocks ==
    Rendered =>
        LET blocks == lastReq.text_blocks.items
            n == Len(blocks)
        IN /\ \A i \in 1..n :
                 blockOk[i] =>
                    \A p \in ExpandedBox(blocks[i]) \ OwnInk(blocks[i]) :
                        overlays[i + 1][p] = ExpectedCover(blocks[i])
           /\ \A i \in 1..n : \A p \in Pixels :
                 (\A j \in (i + 1)..n : p \notin Footprint(blocks[j]))
                    => overlays[n + 1][p] = overlays[i + 1][p]

\* Two overlapping blocks render without error, the first opaque green and the
\* second translucent: the overlay shows both covers.
C8_Witness ==
    /\ Rendered
    /\ Len(blockOk) = 2
    /\ blockOk[1] /\ blockOk[2]
    /\ lastReq.text_blocks.items[1].backgroundTransparent = JBool(FALSE)
    /\ lastReq.text_blocks.items[2].backgroundTransparent = Absent
    /\ lastReq.text_blocks.items[1].x # lastReq.text_blocks.items[2].x
    /\ \E p \in Pixels : overlays[3][p] = << 0, 255, 0, 255 >>
    /\ \E p \in Pixels : overlays[3][p] = << 255, 255, 255, 200 >>

\* A block whose iteration ends in the except clause.
Malformed(b) == ~process_block(NewOverlay, b, fontFiles).ok

\* The list of blocks without its entry i.
Without(blocks, i) == SubSeq(blocks, 1, i - 1) \o SubSeq(blocks, i + 1, Len(blocks))

\* C2: when one block of the list is malformed and the others are valid, the
\* response is 200 and every other block is on the overlay exactly as it is
\* when the malformed block is left out of the list.
C2_OthersRenderedAsIfAbsent ==
    (lastOp = "update_image" /\ lastReq.kind = "object")
    => LET blocks == lastReq.text_blocks.items
       IN \A i \in 1..Len(blocks) :
             (/\ Malformed(blocks[i])
              /\ \A j \in 1..Len(blocks) : j # i => ~Malformed(blocks[j]))
             => /\ response.status = 200
                /\ LET others == Without(blocks, i)
                       ref == render_blocks(<< NewOverlay >>, << >>, others, fontFiles).overlays
                   IN \A j \in 1..Len(others) : \A p \in Footprint(others[j]) :
                         overlays[Len(overlays)][p] = ref[Len(ref)][p]

\* C9: a block whose processing raises is skipped as a whole: the overlay after
\* its iteration is the overlay before it.
C9_FailedBlockLeavesNoTrace ==
    Rendered =>
        \A i \in 1..Len(blockOk) : ~blockOk[i] => overlays[i + 1] = overlays[i]

=============================================================================
